---- MODULE Spec2Model ----
(***************************************************************************)
(* Model of engine/plugins/fbs/fbs.js: the FBS plugin of the self-service  *)
(* terminal.  Two parts share the event bus:                               *)
(*   - the online checker (checkOnlineState): a timer-driven poll of the   *)
(*     library system with a watchdog timer;                               *)
(*   - the request handlers (bus.on('fbs.checkout'), bus.on('fbs.checkin'))*)
(*     with their offline fallback (storage.append, then the job queue).   *)
(* Every callback of the source is one atomic step (Node runs a callback   *)
(* to completion); the configuration provider, the SIP2 transport, the     *)
(* storage plugin and the timers answer in any order.                      *)
(***************************************************************************)
EXTENDS Integers, Sequences, FiniteSets, Bags, TLC

\* ------------------------------------------------------------------ bounds
\* Poll cycles and orphaned primary timers that may exist together: the
\* watchdog is not let fire beyond it (the source sets no limit).
MaxPolls == 2
\* Cap of the history counters goodRun and healthyRun.
MaxRun == 7
\* Checkout / check-in requests sent to the plugin.
MaxReq == 2
\* Readings of the clock (new Date().getTime()) while one request is followed.
MaxClock == 2

\* ------------------------------------------------------- program constants
Threshold == 5
OnlineTimeout == 5000
OfflineTimeout == 30000
EnsureOnlineCheckTimeout == 300000
\* The 2678400000 ms of line 498 (31 days), in seconds as all times of the
\* part of the model that follows one request.
NoBlockPeriod == 2678400

VARIABLES
    onlineState,                    \* the onlineState object (fbs.js 322-329)
    checkOnlineStateTimeout,        \* handle of the primary poll timer
    ensureCheckOnlineStateTimeout,  \* handle of the watchdog timer
    orphans,                        \* armed primary timers no variable names any more
    ensureOrphans,                  \* armed watchdog timers no variable names any more
    polls,                          \* poll cycles in flight, by the call they wait for
    signal,                         \* last 'fbs.online' / 'fbs.offline' published
    boot,                           \* the FBS.create of plugin start
    lastPoll,                       \* history: callback that ended the last poll cycle
    goodRun,                        \* history: consecutive polls the checker took as online
    healthyRun,                     \* history: see HealthyPoll
    prevOnline,                     \* history: online before the callback of lastPoll ran
    excursion,                      \* history: online has been false at some time
    req,                            \* the bus requests: data and place in the handler
    delivered,                      \* per request, the emissions on its event pair
    subs,                           \* bus.once handlers still subscribed
    storage,                        \* the 'storage.append' requests emitted
    jobs,                           \* the 'offline.add.*' jobs emitted
    inbound,                        \* one request followed with its data: as received
    data,                           \* its data object, as the handler has changed it
    now,                            \* the clock
    stage,                          \* its place in the handler
    args,                           \* the arguments of its Facade call
    answer,                         \* the Transport's answer to that call
    outcome,                        \* how the Facade settled the promise of the call
    once,                           \* the bus.once handlers its fallback subscribed
    emitted                         \* the bus.emit calls made for it, in order

monitorVars == <<onlineState, checkOnlineStateTimeout, ensureCheckOnlineStateTimeout,
                 orphans, ensureOrphans, polls, signal, boot, lastPoll, goodRun,
                 healthyRun, prevOnline, excursion>>

requestVars == <<req, delivered, subs, storage, jobs>>

callVars == <<inbound, data, now, stage, args, answer, outcome, once, emitted>>

vars == <<monitorVars, requestVars, callVars>>

\* ------------------------------------------------------------------ timers
\* A timer handle: null, naming an armed timer, or naming a timer that has
\* fired or was cleared (not null, clearTimeout on it does nothing).
Null == [st |-> "null", delay |-> 0]
Dead == [st |-> "dead", delay |-> 0]

SetTimeout(delay) == [st |-> "armed", delay |-> delay]

\* Mutant of ClearTimeout: the timer is left armed.
ClearTimeoutLeavesArmed(h) == h

ClearTimeout(h) == IF h.st = "armed" THEN Dead ELSE h

\* The armed timer a handle stops naming when the variable is overwritten.
Orphaned(h) == IF h.st = "armed" THEN SetToBag({h.delay}) ELSE EmptyBag

ArmedPrimary ==
    (IF checkOnlineStateTimeout.st = "armed" THEN 1 ELSE 0) + BagCardinality(orphans)

ArmedWatchdog ==
    (IF ensureCheckOnlineStateTimeout.st = "armed" THEN 1 ELSE 0)
        + BagCardinality(ensureOrphans)

PollsInFlight == polls.create + polls.status

\* ------------------------------------------------------------------ facade
\* new FBS(bus, config) assigns this.bus and this.config and nothing else.
FBSOwnProperties == {"bus", "config"}

HasOwnProperty(props, name) == name \in props

\* Answers of the configuration provider to 'ctrl.config.fbs'.
ConfigOnlineStates ==
    { [threshold |-> 5, onlineTimeout |-> 5000, offlineTimeout |-> 30000],
      [threshold |-> 2, onlineTimeout |-> 1000, offlineTimeout |-> 2000] }

Configs ==
    [endpoint : BOOLEAN, enableOnlineChecks : BOOLEAN, onlineState : ConfigOnlineStates]

\* Answers of the transport to libraryStatus.
StatusResponses == [hasOnlineState : BOOLEAN, onlineStatus : BOOLEAN]

\* ----------------------------------------------------------- online checker
\* Mutant of InitialOnlineState: the counter starts at 0.
InitialOnlineStateFromZero ==
    [online |-> TRUE, threshold |-> Threshold, successfulOnlineChecks |-> 0,
     onlineTimeout |-> OnlineTimeout, offlineTimeout |-> OfflineTimeout,
     ensureOnlineCheckTimeout |-> EnsureOnlineCheckTimeout]

\* The onlineState object as the plugin creates it.
InitialOnlineState ==
    [online |-> TRUE, threshold |-> Threshold, successfulOnlineChecks |-> 5,
     onlineTimeout |-> OnlineTimeout, offlineTimeout |-> OfflineTimeout,
     ensureOnlineCheckTimeout |-> EnsureOnlineCheckTimeout]

\* Lines 358-360: the three assignments test the Facade object, not its
\* config, for an own property 'onlineState'.
UpdateConfiguration(os, cfg) ==
    [os EXCEPT
        !.threshold = IF HasOwnProperty(FBSOwnProperties, "onlineState")
                      THEN cfg.onlineState.threshold ELSE os.threshold,
        !.onlineTimeout = IF HasOwnProperty(FBSOwnProperties, "onlineState")
                          THEN cfg.onlineState.onlineTimeout ELSE os.onlineTimeout,
        !.offlineTimeout = IF HasOwnProperty(FBSOwnProperties, "onlineState")
                           THEN cfg.onlineState.offlineTimeout ELSE os.offlineTimeout]

\* Line 363: fbs.config && hasOwnProperty.call(fbs, 'endpoint').
EndpointTest == HasOwnProperty(FBSOwnProperties, "endpoint")

EventName(os) == IF os.online THEN "fbs.online" ELSE "fbs.offline"

\* Each callback that ends a poll cycle, as the new onlineState, the delay of
\* the timer it arms and the event it publishes.
\* Mutant of StatusResolved: online as soon as the library reports online.
StatusResolvedNoThreshold(os, res) ==
    LET os2 ==
            IF res.hasOnlineState /\ res.onlineStatus
            THEN [os EXCEPT !.online = TRUE]
            ELSE [os EXCEPT !.successfulOnlineChecks = 0, !.online = FALSE]
    IN [state |-> os2,
        delay |-> IF os2.online THEN os2.onlineTimeout ELSE os2.offlineTimeout,
        event |-> EventName(os2),
        kind |-> IF os2.online THEN "online" ELSE "statusOffline"]

\* libraryStatus resolved (lines 365-391).
StatusResolved(os, res) ==
    LET os2 ==
            IF res.hasOnlineState /\ res.onlineStatus
            THEN IF os.successfulOnlineChecks >= os.threshold
                 THEN [os EXCEPT !.online = TRUE]
                 ELSE [os EXCEPT !.successfulOnlineChecks = @ + 1, !.online = FALSE]
            ELSE [os EXCEPT !.successfulOnlineChecks = 0, !.online = FALSE]
    IN [state |-> os2,
        delay |-> IF os2.online THEN os2.onlineTimeout ELSE os2.offlineTimeout,
        event |-> EventName(os2),
        kind |-> IF ~(res.hasOnlineState /\ res.onlineStatus) THEN "statusOffline"
                 ELSE IF os2.online THEN "online" ELSE "belowThreshold"]

\* Mutant of StatusRejected: the counter is not reset.
StatusRejectedKeepsCount(os) ==
    [state |-> [os EXCEPT !.online = FALSE],
     delay |-> os.offlineTimeout,
     event |-> "fbs.offline",
     kind |-> "statusRejected"]

\* libraryStatus rejected (lines 392-401).
StatusRejected(os) ==
    [state |-> [os EXCEPT !.online = FALSE, !.successfulOnlineChecks = 0],
     delay |-> os.offlineTimeout,
     event |-> "fbs.offline",
     kind |-> "statusRejected"]

\* No endpoint found (lines 403-412).
NotConfigured(os) ==
    [state |-> [os EXCEPT !.online = FALSE, !.successfulOnlineChecks = 0],
     delay |-> os.offlineTimeout,
     event |-> "fbs.offline",
     kind |-> "notConfigured"]

\* FBS.create rejected (lines 414-419): logs and re-arms, nothing else.
CreateRejected(os) ==
    [state |-> os, delay |-> os.offlineTimeout, event |-> "none",
     kind |-> "createRejected"]

\* healthyRun counts the consecutive poll cycles, the first of them begun
\* offline with the counter 0, that ended with an endpoint in the fetched
\* configuration and without a libraryStatus that failed or was taken as
\* offline.  HealthyPoll is its value after one more such cycle.
HealthyPoll ==
    IF healthyRun > 0
           \/ (~onlineState.online /\ onlineState.successfulOnlineChecks = 0)
    THEN (IF healthyRun < MaxRun THEN healthyRun + 1 ELSE healthyRun)
    ELSE 0

\* Mutant of Settle: the callback arms no primary timer.
SettleArmsNothing(out, run, healthy) ==
    /\ onlineState' = out.state
    /\ signal' = IF out.event = "none" THEN signal ELSE out.event
    /\ lastPoll' = out.kind
    /\ goodRun' = run
    /\ healthyRun' = healthy
    /\ prevOnline' = onlineState.online
    /\ excursion' = (excursion \/ ~out.state.online)
    /\ UNCHANGED <<checkOnlineStateTimeout, orphans, ensureCheckOnlineStateTimeout,
                   ensureOrphans, boot>>

\* The effect of such a callback on the plugin's variables; run and healthy
\* are the new values of the history counters.
Settle(out, run, healthy) ==
    /\ onlineState' = out.state
    /\ orphans' = orphans (+) Orphaned(checkOnlineStateTimeout)
    /\ checkOnlineStateTimeout' = SetTimeout(out.delay)
    /\ signal' = IF out.event = "none" THEN signal ELSE out.event
    /\ lastPoll' = out.kind
    /\ goodRun' = run
    /\ healthyRun' = healthy
    /\ prevOnline' = onlineState.online
    /\ excursion' = (excursion \/ ~out.state.online)
    /\ UNCHANGED <<ensureCheckOnlineStateTimeout, ensureOrphans, boot>>

\* Mutant of CheckOnlineState: the watchdog is cleared and not armed again.
CheckOnlineStateNoWatchdog(chk, ens, orph) ==
    /\ ensureOrphans' =
           ensureOrphans (+) Orphaned(IF ens # Null THEN ClearTimeout(ens) ELSE ens)
    /\ ensureCheckOnlineStateTimeout' = Dead
    /\ orphans' = orph (+) Orphaned(IF chk # Null THEN ClearTimeout(chk) ELSE chk)
    /\ checkOnlineStateTimeout' = Null
    /\ polls' = [polls EXCEPT !.create = @ + 1]
    /\ lastPoll' = "none"
    /\ UNCHANGED <<onlineState, signal, goodRun, healthyRun, prevOnline, excursion>>

\* checkOnlineState up to the call of FBS.create (lines 339-355), entered
\* with the handles chk and ens and the orphaned primary timers orph.
CheckOnlineState(chk, ens, orph) ==
    /\ ensureOrphans' =
           ensureOrphans (+) Orphaned(IF ens # Null THEN ClearTimeout(ens) ELSE ens)
    /\ ensureCheckOnlineStateTimeout' =
           SetTimeout(onlineState.onlineTimeout + onlineState.ensureOnlineCheckTimeout)
    /\ orphans' = orph (+) Orphaned(IF chk # Null THEN ClearTimeout(chk) ELSE chk)
    /\ checkOnlineStateTimeout' = Null
    /\ polls' = [polls EXCEPT !.create = @ + 1]
    /\ lastPoll' = "none"
    /\ UNCHANGED <<onlineState, signal, goodRun, healthyRun, prevOnline, excursion>>

\* A primary timer fires: the one checkOnlineStateTimeout names or an
\* orphaned one.  Its callback is checkOnlineState.
PollTimerFires ==
    /\ \/ /\ checkOnlineStateTimeout.st = "armed"
          /\ CheckOnlineState(Dead, ensureCheckOnlineStateTimeout, orphans)
       \/ \E d \in BagToSet(orphans) :
              CheckOnlineState(checkOnlineStateTimeout, ensureCheckOnlineStateTimeout,
                               orphans (-) SetToBag({d}))
    /\ UNCHANGED boot

\* The watchdog fires (it was armed with checkOnlineState as its callback).
WatchdogFires ==
    /\ PollsInFlight + BagCardinality(orphans) < MaxPolls
    /\ ensureCheckOnlineStateTimeout.st = "armed"
    /\ CheckOnlineState(checkOnlineStateTimeout, Dead, orphans)
    /\ UNCHANGED boot

\* The then-callback of FBS.create in checkOnlineState (lines 355-413);
\* hasEndpoint is the value of the test of line 363.
PollCreated(cfg, hasEndpoint) ==
    LET os == UpdateConfiguration(onlineState, cfg)
    IN IF hasEndpoint
       THEN /\ polls' = [create |-> polls.create - 1, status |-> polls.status + 1]
            /\ onlineState' = os
            /\ UNCHANGED <<checkOnlineStateTimeout, ensureCheckOnlineStateTimeout,
                           orphans, ensureOrphans, signal, boot, lastPoll, goodRun,
                           healthyRun, prevOnline, excursion>>
       ELSE /\ polls' = [polls EXCEPT !.create = @ - 1]
            /\ Settle(NotConfigured(os), 0, IF cfg.endpoint THEN HealthyPoll ELSE 0)

\* The configuration provider answers the FBS.create of a poll cycle.
PollConfigReply ==
    /\ polls.create > 0
    /\ \E ok \in BOOLEAN, cfg \in Configs :
           IF ok
           THEN PollCreated(cfg, EndpointTest)
           ELSE /\ polls' = [polls EXCEPT !.create = @ - 1]
                /\ Settle(CreateRejected(onlineState), goodRun, healthyRun)

\* The transport answers the libraryStatus of a poll cycle (lines 364-402).
LibraryStatusSettled ==
    /\ polls.status > 0
    /\ polls' = [polls EXCEPT !.status = @ - 1]
    /\ \E failed \in BOOLEAN, res \in StatusResponses :
           IF failed
           THEN Settle(StatusRejected(onlineState), 0, 0)
           ELSE Settle(StatusResolved(onlineState, res),
                       IF res.hasOnlineState /\ res.onlineStatus
                       THEN (IF goodRun < MaxRun THEN goodRun + 1 ELSE goodRun)
                       ELSE 0,
                       IF res.hasOnlineState /\ res.onlineStatus
                       THEN HealthyPoll ELSE 0)

\* The FBS.create of plugin start is answered (lines 728-749): the plugin
\* registers with the Facade, or logs the error and registers with fbs: null.
\* Mutant of Bootstrap: the checker is started whatever enableOnlineChecks is.
BootstrapAlwaysStarts(ok, cfg) ==
    /\ boot' = IF ok THEN "registered" ELSE "registered without fbs"
    /\ IF ok
       THEN CheckOnlineState(checkOnlineStateTimeout,
                             ensureCheckOnlineStateTimeout, orphans)
       ELSE UNCHANGED <<onlineState, checkOnlineStateTimeout,
                        ensureCheckOnlineStateTimeout, orphans, ensureOrphans,
                        polls, signal, lastPoll, goodRun, healthyRun,
                        prevOnline, excursion>>

\* The two callbacks of that FBS.create: ok with the configuration cfg
\* (lines 730-739) or rejected (lines 740-748).
Bootstrap(ok, cfg) ==
    /\ boot' = IF ok THEN "registered" ELSE "registered without fbs"
    /\ IF ok /\ cfg.enableOnlineChecks
       THEN CheckOnlineState(checkOnlineStateTimeout,
                             ensureCheckOnlineStateTimeout, orphans)
       ELSE UNCHANGED <<onlineState, checkOnlineStateTimeout,
                        ensureCheckOnlineStateTimeout, orphans, ensureOrphans,
                        polls, signal, lastPoll, goodRun, healthyRun,
                        prevOnline, excursion>>

BootConfigReply ==
    /\ boot = "create"
    /\ \E ok \in BOOLEAN, cfg \in Configs : Bootstrap(ok, cfg)

\* -------------------------------------------------------- request handlers
Items == {"i1", "i2"}
Ops == {"checkout", "checkin"}
\* The handlers without a fallback (lines 425-485 and 667-726).
SimpleOps == {"login", "library.status", "patron", "renew", "renew.all", "block"}
Requests == 1 .. MaxReq

\* What a request is told apart by: a checkout or check-in by its item and
\* its queued flag; the other handlers read neither.
RequestKinds ==
    [op : Ops, itemIdentifier : Items, queued : BOOLEAN]
        \cup [op : SimpleOps, itemIdentifier : {"none"}, queued : {FALSE}]

\* Failures of a Facade call, by err.message.
Failures == {"FBS is offline", "other"}

\* The data of a request not yet sent.
NoRequest ==
    [pc |-> "new", op |-> "none", itemIdentifier |-> "none", queued |-> FALSE,
     reply |-> "none"]

\* 'fbs.<op>.offline.stored' + itemIdentifier and 'fbs.<op>.offline.error' +
\* itemIdentifier (lines 538, 545, 562-563 and 622, 629, 644-645).
\* Mutant of StoredEvent: the name does not carry the item identifier.
StoredEventWithoutItem(d) == <<"fbs." \o d.op \o ".offline.stored", "">>

StoredEvent(d) == <<"fbs." \o d.op \o ".offline.stored", d.itemIdentifier>>
ErrorEvent(d) == <<"fbs." \o d.op \o ".offline.error", d.itemIdentifier>>

\* Mutant of FallbackTest: a replay from the queue falls back as well.
FallbackTestIgnoresQueued(message, d) == message = "FBS is offline"

\* Mutant of FallbackTest: the fallback is taken only while the checker's
\* state is offline.
FallbackTestConsultsOnlineState(message, d) ==
    message = "FBS is offline" /\ d.queued = FALSE /\ ~onlineState.online

\* Line 526 and line 611: the test that opens the offline fallback.
FallbackTest(message, d) == message = "FBS is offline" /\ d.queued = FALSE

\* The 'storage.append' message (lines 551-564 and 635-646); r is history.
AppendRequest(r, d) ==
    [r |-> r, action |-> d.op, itemIdentifier |-> d.itemIdentifier, lockFile |-> TRUE,
     busEvent |-> StoredEvent(d), errorEvent |-> ErrorEvent(d), status |-> "pending"]

\* The job of 'offline.add.checkout' / 'offline.add.checkin' (lines 567-568
\* and 649-650).
Job(r, d) == [r |-> r, action |-> d.op, itemIdentifier |-> d.itemIdentifier]

\* Mutant of FallbackJobs: the job is emitted twice.
FallbackJobsTwice(r, d) == <<Job(r, d), Job(r, d)>>

\* The jobs emitted by one run of the fallback.
FallbackJobs(r, d) == <<Job(r, d)>>

\* The storage.append messages emitted by one run of the fallback.
FallbackAppends(r, d) == <<AppendRequest(r, d)>>

\* The two bus.once handlers a fallback subscribes.
FallbackHandlers(r, d) ==
    { [name |-> StoredEvent(d), r |-> r, emits |-> "busEvent", what |-> "material"],
      [name |-> ErrorEvent(d), r |-> r, emits |-> "errorEvent", what |-> "storage error"] }

\* Mutant of Emit: nothing is emitted.
EmitNothing(r, ev, what) == UNCHANGED delivered

\* bus.emit(data.busEvent, ...) / bus.emit(data.errorEvent, ...) of request r.
Emit(r, ev, what) ==
    delivered' = [delivered EXCEPT ![r] = Append(@, [ev |-> ev, what |-> what])]

\* bus.on('fbs.checkout') / bus.on('fbs.checkin') up to FBS.create (lines
\* 490-511 and 585-593).  Requests are numbered in the order they arrive; the
\* caller's busEvent / errorEvent pair is the request's own.
Request(r) ==
    /\ req[r].pc = "new"
    /\ \A q \in Requests : q < r => req[q].pc # "new"
    /\ \E k \in RequestKinds :
           req' = [req EXCEPT ![r] = [pc |-> "create", op |-> k.op,
                                      itemIdentifier |-> k.itemIdentifier,
                                      queued |-> k.queued, reply |-> "none"]]
    /\ UNCHANGED <<delivered, subs, storage, jobs>>
    /\ UNCHANGED monitorVars

\* The configuration provider answers the FBS.create of a request: the
\* Facade call is made (lines 512-519, 600-604) or the error is passed on
\* (lines 576-579, 658-661).
RequestConfigReply(r) ==
    /\ req[r].pc = "create"
    /\ \E ok \in BOOLEAN :
           IF ok
           THEN /\ req' = [req EXCEPT ![r].pc = "call"]
                /\ UNCHANGED delivered
           ELSE /\ req' = [req EXCEPT ![r].pc = "done", ![r].reply = "config error"]
                /\ Emit(r, "errorEvent", "config error")
    /\ UNCHANGED <<subs, storage, jobs>>
    /\ UNCHANGED monitorVars

\* The then-callback of fbs.checkout / fbs.checkIn (lines 519-524, 604-609).
CallResolved(r) ==
    /\ req' = [req EXCEPT ![r].pc = "done", ![r].reply = "ok"]
    /\ Emit(r, "busEvent", "result")
    /\ UNCHANGED <<subs, storage, jobs>>

\* The error callback of fbs.checkout / fbs.checkIn (lines 525-573, 610-655).
CallRejected(r, message) ==
    /\ req' = [req EXCEPT ![r].pc = "done", ![r].reply = message]
    /\ IF req[r].op \in Ops /\ FallbackTest(message, req[r])
       THEN /\ subs' = subs \cup FallbackHandlers(r, req[r])
            /\ storage' = storage \o FallbackAppends(r, req[r])
            /\ jobs' = jobs \o FallbackJobs(r, req[r])
            /\ UNCHANGED delivered
       ELSE /\ Emit(r, "errorEvent", message)
            /\ UNCHANGED <<subs, storage, jobs>>

\* The transport answers a Facade call: the checkout / check-in of a request
\* or the libraryStatus of a poll cycle.
Calls == {<<"request", r>> : r \in {q \in Requests : req[q].pc = "call"}}
             \cup (IF polls.status > 0 THEN {<<"poll", 0>>} ELSE {})

\* Mutant of TransportReply: a request that failed offline marks the checker's
\* state offline.
TransportReplyMarksOffline ==
    \E c \in Calls :
        IF c[1] = "poll"
        THEN LibraryStatusSettled /\ UNCHANGED requestVars
        ELSE \/ CallResolved(c[2]) /\ UNCHANGED monitorVars
             \/ \E message \in Failures :
                    /\ CallRejected(c[2], message)
                    /\ onlineState' =
                           IF message = "FBS is offline"
                           THEN [onlineState EXCEPT !.online = FALSE,
                                                    !.successfulOnlineChecks = 0]
                           ELSE onlineState
                    /\ UNCHANGED <<checkOnlineStateTimeout,
                                   ensureCheckOnlineStateTimeout, orphans,
                                   ensureOrphans, polls, signal, boot, lastPoll,
                                   goodRun, healthyRun, prevOnline, excursion>>

TransportReply ==
    \E c \in Calls :
        IF c[1] = "poll"
        THEN LibraryStatusSettled /\ UNCHANGED requestVars
        ELSE /\ \/ CallResolved(c[2])
                \/ \E message \in Failures : CallRejected(c[2], message)
             /\ UNCHANGED monitorVars

\* The handlers of a bus.emit(name): the bus.once handlers subscribed to it.
Listeners(name) == {h \in subs : h.name = name}

\* The storage plugin answers the i-th 'storage.append' on the busEvent or
\* the errorEvent it was given; every handler subscribed to that name runs
\* and is unsubscribed.
StorageReply(i) ==
    /\ storage[i].status = "pending"
    /\ \E ok \in BOOLEAN :
           LET name == IF ok THEN storage[i].busEvent ELSE storage[i].errorEvent
           IN /\ storage' = [storage EXCEPT
                                 ![i].status = IF ok THEN "stored" ELSE "failed"]
              /\ subs' = subs \ Listeners(name)
              /\ delivered' =
                     [r \in Requests |->
                         IF \E h \in Listeners(name) : h.r = r
                         THEN LET h == CHOOSE h \in Listeners(name) : h.r = r
                              IN Append(delivered[r], [ev |-> h.emits, what |-> h.what])
                         ELSE delivered[r]]
    /\ UNCHANGED <<req, jobs>>
    /\ UNCHANGED monitorVars

\* ------------------------------------------------ one request and its data
\* The handlers above are told apart by item and queued flag only.  Here one
\* request is followed with every field of its data object, from the bus
\* message to the emissions made for it.  A data object is a function from
\* its own properties to their values; reading a property gives <<v>>, or
\* <<>> (undefined) when the object has no such property.
Clock == 1 .. MaxClock

Get(d, f) == IF f \in DOMAIN d THEN <<d[f]>> ELSE <<>>

\* d.f = v
With(d, f, v) == [k \in DOMAIN d \cup {f} |-> IF k = f THEN v ELSE d[k]]

\* a || b, for a number and for a boolean a.
OrNumber(a, b) == IF a = <<>> \/ a[1] = 0 THEN b ELSE a[1]
OrBoolean(a, b) == IF a = <<>> \/ a[1] = FALSE THEN b ELSE a[1]

BusMessages ==
    {"fbs.login", "fbs.library.status", "fbs.patron", "fbs.checkout", "fbs.checkin",
     "fbs.renew", "fbs.renew.all", "fbs.block"}

\* The data objects ds, and those with the property f added.
Optional(ds, f, vals) == ds \cup {With(d, f, v) : d \in ds, v \in vals}

\* The data objects a caller sends with bus message m.
InboundData(m) ==
    CASE m = "fbs.checkout" ->
             Optional(Optional(Optional(Optional(
                 {[username |-> "u1", password |-> "p1", itemIdentifier |-> "i1",
                   busEvent |-> "busEvent", errorEvent |-> "errorEvent"]},
                 "noBlockDueDate", {13}), "noBlock", BOOLEAN),
                 "transactionDate", {11}), "queued", BOOLEAN)
      [] m = "fbs.checkin" ->
             Optional(Optional(Optional(
                 {[itemIdentifier |-> "i1", transaction |-> "t1",
                   busEvent |-> "busEvent", errorEvent |-> "errorEvent"]},
                 "checkedInDate", {12}), "noBlock", BOOLEAN), "queued", BOOLEAN)
      [] m \in {"fbs.login", "fbs.patron", "fbs.renew.all"} ->
             {[username |-> "u1", password |-> "p1",
               busEvent |-> "busEvent", errorEvent |-> "errorEvent"]}
      [] m = "fbs.renew" ->
             {[username |-> "u1", password |-> "p1", itemIdentifier |-> "i1",
               busEvent |-> "busEvent", errorEvent |-> "errorEvent"]}
      [] m = "fbs.block" ->
             {[username |-> "u1", reason |-> "r1",
               busEvent |-> "busEvent", errorEvent |-> "errorEvent"]}
      [] OTHER -> {[busEvent |-> "busEvent", errorEvent |-> "errorEvent"]}

\* Mutant of CheckoutDefaults: transactionDate is always set to the clock.
CheckoutDefaultsOverwrite(d, t) ==
    LET d1 == With(d, "queued", OrBoolean(Get(d, "queued"), FALSE))
        d2 == IF ~HasOwnProperty(DOMAIN d1, "noBlockDueDate")
              THEN With(d1, "noBlockDueDate", t + NoBlockPeriod)
              ELSE d1
    IN With(d2, "transactionDate", t)

\* bus.on('fbs.checkout') before FBS.create (lines 491-508), at time t.
CheckoutDefaults(d, t) ==
    LET d1 == With(d, "queued", OrBoolean(Get(d, "queued"), FALSE))
        d2 == IF ~HasOwnProperty(DOMAIN d1, "noBlockDueDate")
              THEN With(d1, "noBlockDueDate", t + NoBlockPeriod)
              ELSE d1
    IN With(d2, "transactionDate", OrNumber(Get(d2, "transactionDate"), t))

\* bus.on('fbs.checkin') before FBS.create (lines 586-590), at time t.
CheckinDefaults(d, t) ==
    LET d1 == With(d, "queued", OrBoolean(Get(d, "queued"), FALSE))
    IN With(d1, "checkedInDate", OrNumber(Get(d1, "checkedInDate"), t))

\* Mutant of NoBlock: the request's noBlock is not read.
NoBlockNever(d) == FALSE

\* const noBlock (lines 504 and 597).
NoBlock(d) == IF HasOwnProperty(DOMAIN d, "noBlock") THEN d.noBlock ELSE FALSE

\* The arguments a handler passes to its Facade method.
FacadeArguments(m, d) ==
    CASE m = "fbs.checkout" ->
             [username |-> Get(d, "username"), password |-> Get(d, "password"),
              itemIdentifier |-> Get(d, "itemIdentifier"),
              noBlockDueDate |-> Get(d, "noBlockDueDate"), noBlock |-> <<NoBlock(d)>>,
              transactionDate |-> Get(d, "transactionDate")]
      [] m = "fbs.checkin" ->
             [itemIdentifier |-> Get(d, "itemIdentifier"),
              checkedInDate |-> Get(d, "checkedInDate"), noBlock |-> <<NoBlock(d)>>]
      [] m \in {"fbs.login", "fbs.patron", "fbs.renew.all"} ->
             [username |-> Get(d, "username"), password |-> Get(d, "password")]
      [] m = "fbs.renew" ->
             [username |-> Get(d, "username"), password |-> Get(d, "password"),
              itemIdentifier |-> Get(d, "itemIdentifier")]
      [] m = "fbs.block" ->
             [username |-> Get(d, "username"), reason |-> Get(d, "reason")]
      [] OTHER -> [none |-> <<>>]

\* The name a Facade method gives in 'fbs.action.result'; libraryStatus
\* (lines 71-84) emits no such event.
ActionName(m) ==
    CASE m = "fbs.login" -> <<"Login">>
      [] m = "fbs.patron" -> <<"Patron Information">>
      [] m = "fbs.checkout" -> <<"Checkout">>
      [] m = "fbs.checkin" -> <<"Checkin">>
      [] m = "fbs.renew" -> <<"Renew">>
      [] m = "fbs.renew.all" -> <<"Renew All">>
      [] m = "fbs.block" -> <<"Block">>
      [] OTHER -> <<>>

\* The patron status responses of the library system, as login reads them.
PatronStatusResponses ==
    [validPatron : {"Y", "N"}, validPatronPassword : {"Y", "N"},
     patronStatus : [chargePrivDenied : BOOLEAN, renewalPrivDenied : BOOLEAN,
                     recallPrivDenied : BOOLEAN, holdPrivDenied : BOOLEAN]]

\* The (err, res) the Transport calls back with.
TransportAnswers(m) ==
    {[err |-> <<e>>, res |-> <<>>] : e \in Failures}
        \cup {[err |-> <<>>, res |-> <<x>>] :
                 x \in IF m = "fbs.login" THEN PatronStatusResponses ELSE {"res"}}

\* Mutant of Login: a patron with every privilege denied is let in.
LoginIgnoresBlock(a) ==
    IF a.err # <<>>
    THEN [settled |-> "rejected", value |-> a.err]
    ELSE IF a.res[1].validPatron = "Y" /\ a.res[1].validPatronPassword = "Y"
         THEN [settled |-> "resolved", value |-> <<>>]
         ELSE [settled |-> "rejected", value |-> <<"login.invalid_login_error">>]

\* FBS.prototype.login (lines 97-126): how the promise is settled.
Login(a) ==
    IF a.err # <<>>
    THEN [settled |-> "rejected", value |-> a.err]
    ELSE IF a.res[1].validPatron = "Y" /\ a.res[1].validPatronPassword = "Y"
         THEN IF /\ a.res[1].patronStatus.chargePrivDenied
                 /\ a.res[1].patronStatus.renewalPrivDenied
                 /\ a.res[1].patronStatus.recallPrivDenied
                 /\ a.res[1].patronStatus.holdPrivDenied
              THEN [settled |-> "rejected", value |-> <<"login.invalid_login_blocked">>]
              ELSE [settled |-> "resolved", value |-> <<>>]
         ELSE [settled |-> "rejected", value |-> <<"login.invalid_login_error">>]

\* The other Facade methods (lines 71-84 and 141-306).
PassOn(a) ==
    IF a.err # <<>>
    THEN [settled |-> "rejected", value |-> a.err]
    ELSE [settled |-> "resolved", value |-> a.res]

\* bus.emit('fbs.action.result', name, !!err) of a Facade method.
ActionResult(m, a) ==
    IF ActionName(m) = <<>>
    THEN <<>>
    ELSE <<[name |-> "fbs.action.result",
            payload |-> [action |-> ActionName(m)[1], failed |-> a.err # <<>>]]>>

\* Mutant of Material: the due date is the transaction date.
MaterialDueAtTransaction(m, d) ==
    IF m = "fbs.checkout"
    THEN [itemIdentifier |-> Get(d, "itemIdentifier"), offline |-> TRUE, ok |-> "1",
          itemProperties |-> [id |-> Get(d, "itemIdentifier"),
                              title |-> "fbs.offline.title"],
          dueDate |-> Get(d, "transactionDate")]
    ELSE [itemIdentifier |-> Get(d, "itemIdentifier"), offline |-> TRUE, ok |-> "1",
          itemProperties |-> [id |-> Get(d, "itemIdentifier"),
                              title |-> "fbs.offline.title"]]

\* The provisional result of the fallback (lines 527-536 and 612-620).
Material(m, d) ==
    IF m = "fbs.checkout"
    THEN [itemIdentifier |-> Get(d, "itemIdentifier"), offline |-> TRUE, ok |-> "1",
          itemProperties |-> [id |-> Get(d, "itemIdentifier"),
                              title |-> "fbs.offline.title"],
          dueDate |-> Get(d, "noBlockDueDate")]
    ELSE [itemIdentifier |-> Get(d, "itemIdentifier"), offline |-> TRUE, ok |-> "1",
          itemProperties |-> [id |-> Get(d, "itemIdentifier"),
                              title |-> "fbs.offline.title"]]

\* const file (lines 550 and 634).
File(m, d) == IF m = "fbs.checkout" THEN Get(d, "username") ELSE Get(d, "transaction")

\* Mutant of StorageAppend: the append does not ask for the file lock.
StorageAppendUnlocked(m, d) ==
    [name |-> "storage.append",
     payload |->
         [type |-> "offline", name |-> File(m, d), lockFile |-> FALSE,
          obj |-> IF m = "fbs.checkout"
                  THEN [date |-> Get(d, "checkedInDate"), action |-> "checkout",
                        username |-> Get(d, "username"),
                        password |-> Get(d, "password"),
                        itemIdentifier |-> Get(d, "itemIdentifier")]
                  ELSE [action |-> "checkin", date |-> Get(d, "checkedInDate"),
                        itemIdentifier |-> Get(d, "itemIdentifier")],
          busEvent |-> <<m \o ".offline.stored", d.itemIdentifier>>,
          errorEvent |-> <<m \o ".offline.error", d.itemIdentifier>>]]

\* bus.emit('storage.append', ...) (lines 551-564 and 635-646).
StorageAppend(m, d) ==
    [name |-> "storage.append",
     payload |->
         [type |-> "offline", name |-> File(m, d), lockFile |-> TRUE,
          obj |-> IF m = "fbs.checkout"
                  THEN [date |-> Get(d, "checkedInDate"), action |-> "checkout",
                        username |-> Get(d, "username"),
                        password |-> Get(d, "password"),
                        itemIdentifier |-> Get(d, "itemIdentifier")]
                  ELSE [action |-> "checkin", date |-> Get(d, "checkedInDate"),
                        itemIdentifier |-> Get(d, "itemIdentifier")],
          busEvent |-> <<m \o ".offline.stored", d.itemIdentifier>>,
          errorEvent |-> <<m \o ".offline.error", d.itemIdentifier>>]]

\* The job queue message of the fallback (lines 567-568 and 649-650).
OfflineAdd(m) == IF m = "fbs.checkout" THEN "offline.add.checkout" ELSE "offline.add.checkin"

\* The bus message arrives and its handler runs up to FBS.create.
Inbound ==
    /\ stage = "idle"
    /\ \E m \in BusMessages, t \in Clock :
           /\ t >= now
           /\ now' = t
           /\ \E d \in InboundData(m) :
                  /\ inbound' = [message |-> m, data |-> d, at |-> t]
                  /\ data' = CASE m = "fbs.checkout" -> CheckoutDefaults(d, t)
                               [] m = "fbs.checkin" -> CheckinDefaults(d, t)
                               [] OTHER -> d
    /\ stage' = "create"
    /\ UNCHANGED <<args, answer, outcome, once, emitted>>

\* The configuration provider answers FBS.create: the Facade method is called
\* or the error goes to data.errorEvent.
CreateAnswered ==
    /\ stage = "create"
    /\ \E ok \in BOOLEAN :
           IF ok
           THEN /\ args' = <<FacadeArguments(inbound.message, data)>>
                /\ stage' = "call"
                /\ UNCHANGED emitted
           ELSE /\ emitted' = Append(emitted, [name |-> data.errorEvent,
                                               payload |-> [err |-> "config error"]])
                /\ stage' = "done"
                /\ UNCHANGED args
    /\ UNCHANGED <<inbound, data, now, answer, outcome, once>>

\* The Transport calls back: the Facade method settles its promise and emits
\* 'fbs.action.result'.
TransportAnswered ==
    /\ stage = "call"
    /\ \E a \in TransportAnswers(inbound.message) :
           /\ answer' = <<a>>
           /\ outcome' = IF inbound.message = "fbs.login" THEN Login(a) ELSE PassOn(a)
           /\ emitted' = emitted \o ActionResult(inbound.message, a)
    /\ stage' = "settled"
    /\ UNCHANGED <<inbound, data, now, args, once>>

\* The success callback of the handler (bus.emit(data.busEvent, ...)).
Success(m, t) ==
    [name |-> data.busEvent,
     payload |-> CASE m = "fbs.login" -> [timestamp |-> t]
                   [] m = "fbs.library.status" -> [timestamp |-> t, results |-> outcome.value]
                   [] m = "fbs.patron" -> [timestamp |-> t, patron |-> outcome.value]
                   [] OTHER -> [timestamp |-> t, result |-> outcome.value]]

\* The callback of the handler for the settled promise: its emission on the
\* caller's pair or, for a checkout / check-in that failed offline, the
\* fallback (lines 526-569 and 611-651).
Settled ==
    /\ stage = "settled"
    /\ \E t \in Clock :
           /\ t >= now
           /\ now' = t
           /\ IF outcome.settled = "resolved"
              THEN /\ emitted' = Append(emitted, Success(inbound.message, t))
                   /\ stage' = "done"
                   /\ UNCHANGED <<data, once>>
              ELSE IF /\ inbound.message \in {"fbs.checkout", "fbs.checkin"}
                      /\ FallbackTest(outcome.value[1], data)
                   THEN /\ once' =
                               {[name |-> <<inbound.message \o ".offline.stored",
                                            data.itemIdentifier>>,
                                 emits |-> data.busEvent,
                                 payload |-> [result |-> Material(inbound.message, data)]],
                                [name |-> <<inbound.message \o ".offline.error",
                                            data.itemIdentifier>>,
                                 emits |-> data.errorEvent,
                                 payload |-> [err |-> "storage error"]]}
                        /\ data' = With(data, "file", File(inbound.message, data)[1])
                        /\ emitted' = emitted \o
                               <<StorageAppend(inbound.message, data),
                                 [name |-> OfflineAdd(inbound.message), payload |-> data']>>
                        /\ stage' = "append"
                   ELSE /\ emitted' = Append(emitted, [name |-> data.errorEvent,
                                                       payload |-> [err |-> outcome.value[1]]])
                        /\ stage' = "done"
                        /\ UNCHANGED <<data, once>>
    /\ UNCHANGED <<inbound, args, answer, outcome>>

\* The storage plugin answers the 'storage.append' on the busEvent or the
\* errorEvent it was given; the handler subscribed to that name runs.
StorageAnswered ==
    /\ stage = "append"
    /\ \E ok \in BOOLEAN, t \in Clock :
           /\ t >= now
           /\ now' = t
           /\ LET sent == SelectSeq(emitted, LAMBDA e : e.name = "storage.append")[1]
                  name == IF ok THEN sent.payload.busEvent ELSE sent.payload.errorEvent
                  ran == {h \in once : h.name = name}
              IN /\ once' = once \ ran
                 /\ \E h \in ran :
                        emitted' = Append(emitted, [name |-> h.emits, payload |-> h.payload])
    /\ stage' = "done"
    /\ UNCHANGED <<inbound, data, args, answer, outcome>>

Init ==
    /\ onlineState = InitialOnlineState
    /\ checkOnlineStateTimeout = Null
    /\ ensureCheckOnlineStateTimeout = Null
    /\ orphans = EmptyBag
    /\ ensureOrphans = EmptyBag
    /\ polls = [create |-> 0, status |-> 0]
    /\ signal = "none"
    /\ boot = "create"
    /\ lastPoll = "none"
    /\ goodRun = 0
    /\ healthyRun = 0
    /\ prevOnline = TRUE
    /\ excursion = FALSE
    /\ req = [r \in Requests |-> NoRequest]
    /\ delivered = [r \in Requests |-> <<>>]
    /\ subs = {}
    /\ storage = <<>>
    /\ jobs = <<>>
    /\ inbound = [message |-> "none"]
    /\ data = [none |-> "none"]
    /\ now = 1
    /\ stage = "idle"
    /\ args = <<>>
    /\ answer = <<>>
    /\ outcome = [settled |-> "none"]
    /\ once = {}
    /\ emitted = <<>>

Next ==
    \/ BootConfigReply /\ UNCHANGED requestVars /\ UNCHANGED callVars
    \/ PollTimerFires /\ UNCHANGED requestVars /\ UNCHANGED callVars
    \/ WatchdogFires /\ UNCHANGED requestVars /\ UNCHANGED callVars
    \/ PollConfigReply /\ UNCHANGED requestVars /\ UNCHANGED callVars
    \/ TransportReply /\ UNCHANGED callVars
    \/ \E r \in Requests : Request(r) /\ UNCHANGED callVars
    \/ \E r \in Requests : RequestConfigReply(r) /\ UNCHANGED callVars
    \/ \E i \in DOMAIN storage : StorageReply(i) /\ UNCHANGED callVars

Spec == Init /\ [][Next]_vars

\* The online checker with the outcome of the test of line 363 left open:
\* every behaviour of the checker in Spec is one of MonitorSpec, and the
\* libraryStatus callbacks, which the test keeps Spec from reaching, run.
PollConfigReplyOpen ==
    /\ polls.create > 0
    /\ \E cfg \in Configs, hasEndpoint \in BOOLEAN : PollCreated(cfg, hasEndpoint)

PollCreateRejected ==
    /\ polls.create > 0
    /\ polls' = [polls EXCEPT !.create = @ - 1]
    /\ Settle(CreateRejected(onlineState), goodRun, healthyRun)

MonitorNext ==
    \/ BootConfigReply /\ UNCHANGED requestVars /\ UNCHANGED callVars
    \/ PollTimerFires /\ UNCHANGED requestVars /\ UNCHANGED callVars
    \/ WatchdogFires /\ UNCHANGED requestVars /\ UNCHANGED callVars
    \/ PollConfigReplyOpen /\ UNCHANGED requestVars /\ UNCHANGED callVars
    \/ PollCreateRejected /\ UNCHANGED requestVars /\ UNCHANGED callVars
    \/ LibraryStatusSettled /\ UNCHANGED requestVars /\ UNCHANGED callVars

MonitorSpec == Init /\ [][MonitorNext]_vars

\* The request handlers alone: the behaviours of Spec in which the online
\* checker takes no step (it shares no variable with the handlers).
RequestNext ==
    \/ TransportReply /\ UNCHANGED callVars
    \/ \E r \in Requests : Request(r) /\ UNCHANGED callVars
    \/ \E r \in Requests : RequestConfigReply(r) /\ UNCHANGED callVars
    \/ \E i \in DOMAIN storage : StorageReply(i) /\ UNCHANGED callVars

RequestSpec == Init /\ [][RequestNext]_vars

\* States of the online checker beside which requests are handled: before
\* the bootstrap was answered; after a poll cycle whose FBS.create was
\* rejected (online, timers armed); after a poll cycle that took the
\* not-configured branch (offline, counter 0, timers armed).
CheckerStates ==
    LET started == [onlineState |-> InitialOnlineState,
                    checkOnlineStateTimeout |-> Null,
                    ensureCheckOnlineStateTimeout |->
                        SetTimeout(OnlineTimeout + EnsureOnlineCheckTimeout),
                    polls |-> [create |-> 1, status |-> 0],
                    signal |-> "none", boot |-> "registered", lastPoll |-> "none",
                    prevOnline |-> TRUE, excursion |-> FALSE]
    IN { [started EXCEPT !.ensureCheckOnlineStateTimeout = Null,
                         !.polls = [create |-> 0, status |-> 0],
                         !.boot = "create"],
         [started EXCEPT !.checkOnlineStateTimeout =
                             SetTimeout(CreateRejected(InitialOnlineState).delay),
                         !.polls = [create |-> 0, status |-> 0],
                         !.lastPoll = "createRejected"],
         [started EXCEPT !.onlineState = NotConfigured(InitialOnlineState).state,
                         !.checkOnlineStateTimeout =
                             SetTimeout(NotConfigured(InitialOnlineState).delay),
                         !.polls = [create |-> 0, status |-> 0],
                         !.signal = "fbs.offline",
                         !.lastPoll = "notConfigured",
                         !.excursion = TRUE] }

\* The request handlers beside the online checker in one of these states.
FrameInit ==
    /\ \E c \in CheckerStates :
           /\ onlineState = c.onlineState
           /\ checkOnlineStateTimeout = c.checkOnlineStateTimeout
           /\ ensureCheckOnlineStateTimeout = c.ensureCheckOnlineStateTimeout
           /\ polls = c.polls
           /\ signal = c.signal
           /\ boot = c.boot
           /\ lastPoll = c.lastPoll
           /\ prevOnline = c.prevOnline
           /\ excursion = c.excursion
    /\ orphans = EmptyBag
    /\ ensureOrphans = EmptyBag
    /\ goodRun = 0
    /\ healthyRun = 0
    /\ req = [r \in Requests |-> NoRequest]
    /\ delivered = [r \in Requests |-> <<>>]
    /\ subs = {}
    /\ storage = <<>>
    /\ jobs = <<>>
    /\ inbound = [message |-> "none"]
    /\ data = [none |-> "none"]
    /\ now = 1
    /\ stage = "idle"
    /\ args = <<>>
    /\ answer = <<>>
    /\ outcome = [settled |-> "none"]
    /\ once = {}
    /\ emitted = <<>>

FrameSpec == FrameInit /\ [][RequestNext]_vars

\* One request followed from its bus message to the emissions made for it.
\* The handlers share no data object, so what is passed on for a request
\* does not depend on the requests beside it.
CallNext ==
    \/ Inbound /\ UNCHANGED <<monitorVars, requestVars>>
    \/ CreateAnswered /\ UNCHANGED <<monitorVars, requestVars>>
    \/ TransportAnswered /\ UNCHANGED <<monitorVars, requestVars>>
    \/ Settled /\ UNCHANGED <<monitorVars, requestVars>>
    \/ StorageAnswered /\ UNCHANGED <<monitorVars, requestVars>>

CallSpec == Init /\ [][CallNext]_vars

\* The request handlers when the configuration provider, the Transport and
\* the storage plugin answer every message they were sent.
RequestLiveSpec ==
    /\ Init /\ [][RequestNext]_vars
    /\ WF_vars((\E r \in Requests : RequestConfigReply(r)) /\ UNCHANGED callVars)
    /\ WF_vars(TransportReply /\ UNCHANGED callVars)
    /\ WF_vars((\E i \in DOMAIN storage : StorageReply(i)) /\ UNCHANGED callVars)

\* The online checker under the scheduling of the event loop.  A pending
\* FBS.create or libraryStatus of a poll cycle is answered or is never
\* answered (PollStalls: its callbacks will not run, the plugin's variables
\* keep their values); an armed timer fires unless it is cleared first.
PollStalls ==
    /\ \/ /\ polls.create > 0
          /\ polls' = [polls EXCEPT !.create = @ - 1]
       \/ /\ polls.status > 0
          /\ polls' = [polls EXCEPT !.status = @ - 1]
    /\ UNCHANGED <<onlineState, checkOnlineStateTimeout, ensureCheckOnlineStateTimeout,
                   orphans, ensureOrphans, signal, boot, lastPoll, goodRun,
                   healthyRun, prevOnline, excursion>>

\* A timer with checkOnlineState as its callback fires.
TimerFires ==
    (PollTimerFires \/ WatchdogFires) /\ UNCHANGED <<requestVars, callVars>>

\* A pending poll cycle is answered, or is known never to be.
PollEnds ==
    /\ \/ PollConfigReplyOpen
       \/ PollCreateRejected
       \/ LibraryStatusSettled
       \/ PollStalls
    /\ UNCHANGED <<requestVars, callVars>>

LiveNext ==
    \/ BootConfigReply /\ UNCHANGED requestVars /\ UNCHANGED callVars
    \/ PollTimerFires /\ UNCHANGED requestVars /\ UNCHANGED callVars
    \/ WatchdogFires /\ UNCHANGED requestVars /\ UNCHANGED callVars
    \/ PollConfigReplyOpen /\ UNCHANGED requestVars /\ UNCHANGED callVars
    \/ PollCreateRejected /\ UNCHANGED requestVars /\ UNCHANGED callVars
    \/ LibraryStatusSettled /\ UNCHANGED requestVars /\ UNCHANGED callVars
    \/ PollStalls /\ UNCHANGED requestVars /\ UNCHANGED callVars

LiveSpec ==
    Init /\ [][LiveNext]_vars /\ WF_vars(TimerFires) /\ WF_vars(PollEnds)

\* ------------------------------------------------------------------ claims
AppendsOf(r) == SelectSeq(storage, LAMBDA a : a.r = r)
JobsOf(r) == SelectSeq(jobs, LAMBDA j : j.r = r)

\* The storage plugin's answer to the append of request r.
AppendStatus(r) == IF AppendsOf(r) = <<>> THEN "none" ELSE AppendsOf(r)[1].status

Provisional(r) == \E i \in DOMAIN delivered[r] : delivered[r][i].what = "material"

\* Request r failed with the back end offline and was not a replay.
FellBack(r) ==
    /\ req[r].op \in Ops
    /\ req[r].pc = "done" /\ req[r].reply = "FBS is offline" /\ req[r].queued = FALSE

\* C1: a request that entered the offline fallback is given the provisional
\* success only once the storage plugin has confirmed the append of its own
\* record; if that append failed it is given the storage error on its
\* errorEvent and no provisional success.
ProvisionalOnlyAfterOwnAppend ==
    \A r \in Requests :
        FellBack(r) =>
            /\ Provisional(r) => AppendStatus(r) = "stored"
            /\ AppendStatus(r) = "failed" =>
                   delivered[r] = <<[ev |-> "errorEvent", what |-> "storage error"]>>

\* C2: a reconciliation job is in the queue only after the append of its
\* request was confirmed; none is there when the append failed.
JobOnlyAfterAppendStored ==
    \A i \in DOMAIN jobs : AppendStatus(jobs[i].r) = "stored"

\* C3: every request that failed with the back end offline and queued=false
\* has produced exactly one storage.append and exactly one job.
ExactlyOneAppendAndJob ==
    \A r \in Requests :
        FellBack(r) => Len(AppendsOf(r)) = 1 /\ Len(JobsOf(r)) = 1

\* Two requests for the same item have both fallen back and the storage has
\* answered both.
TwoFallbacksAnswered ==
    \E r, q \in Requests :
        /\ r # q /\ FellBack(r) /\ FellBack(q)
        /\ req[r].op = req[q].op /\ req[r].itemIdentifier = req[q].itemIdentifier
        /\ AppendStatus(r) # "pending" /\ AppendStatus(q) # "pending"

\* C4: a request whose Facade call failed for another cause, or failed
\* offline while queued, is given that failure alone on its errorEvent, and
\* no storage.append, job or provisional success exists for it.
OtherFailuresPassUnchanged ==
    \A r \in Requests :
        (/\ req[r].pc = "done"
         /\ req[r].reply \in Failures
         /\ ~(req[r].reply = "FBS is offline" /\ req[r].queued = FALSE)) =>
            /\ delivered[r] = <<[ev |-> "errorEvent", what |-> req[r].reply]>>
            /\ AppendsOf(r) = <<>>
            /\ JobsOf(r) = <<>>

\* A replay failed offline while a fallback of the same item was answered by
\* the storage, and another request failed for another cause.
ReplayFailedBesideFallback ==
    \E r, q \in Requests :
        /\ r # q
        /\ req[r].pc = "done" /\ req[r].reply = "FBS is offline" /\ req[r].queued
        /\ delivered[r] # <<>>
        /\ FellBack(q) /\ AppendStatus(q) = "stored"
        /\ req[r].op = req[q].op /\ req[r].itemIdentifier = req[q].itemIdentifier

ScenarioAFlipsOnFifthPoll ==
    healthyRun >= 1 => (signal = "fbs.online" <=> healthyRun >= 5)

\* C7: a poll whose libraryStatus call failed ends offline with the counter
\* 0, 'fbs.offline' published and the primary timer armed with offlineTimeout.
ScenarioB ==
    lastPoll = "statusRejected" =>
        /\ ~onlineState.online
        /\ onlineState.successfulOnlineChecks = 0
        /\ signal = "fbs.offline"
        /\ checkOnlineStateTimeout.st = "armed"
        /\ checkOnlineStateTimeout.delay = onlineState.offlineTimeout

\* libraryStatus failed in a poll that began online.
StatusFailedWhileOnline == lastPoll = "statusRejected" /\ prevOnline

\* C8: at most one primary poll timer is armed.
AtMostOnePrimaryTimer == ArmedPrimary <= 1

\* C9: at most one watchdog timer is armed, and it is armed to fire after
\* onlineTimeout + ensureOnlineCheckTimeout.
AtMostOneWatchdog ==
    /\ ArmedWatchdog <= 1
    /\ ensureCheckOnlineStateTimeout.st = "armed" =>
           ensureCheckOnlineStateTimeout.delay =
               onlineState.onlineTimeout + onlineState.ensureOnlineCheckTimeout

\* The watchdog has fired during a poll cycle and is armed again.
WatchdogRearmed ==
    ensureCheckOnlineStateTimeout.st = "armed" /\ PollsInFlight >= 2

\* C10: at most one poll cycle is in flight.
AtMostOnePollInFlight == PollsInFlight <= 1

\* checkOnlineState has run at least once.
MonitorStarted == ensureCheckOnlineStateTimeout # Null

\* No primary timer is armed and no poll cycle will be answered.
Stalled == MonitorStarted /\ ArmedPrimary = 0 /\ PollsInFlight = 0

\* C11: when the primary chain has stalled (no primary timer armed, no poll
\* cycle that will complete) a new poll cycle is eventually started, which
\* only the watchdog can do; and once the monitor has been started,
\* checkOnlineState runs infinitely often.
WatchdogLiveness ==
    /\ Stalled ~> (PollsInFlight > 0)
    /\ <>MonitorStarted => []<><<TimerFires>>_vars

\* A poll cycle is still unanswered, no primary timer was armed, and the
\* watchdog has fired and started a second poll cycle beside it.
WatchdogStartedPollAfterStall ==
    /\ polls.create = 2 /\ polls.status = 0
    /\ lastPoll = "none"
    /\ ArmedPrimary = 0
    /\ ensureCheckOnlineStateTimeout.st = "armed"

\* The branches a poll cycle can end in.
PollBranches ==
    {"createRejected", "notConfigured", "statusRejected", "statusOffline",
     "belowThreshold", "online"}

\* C12: whichever branch the poll cycle that completed last took, the
\* variable checkOnlineStateTimeout names an armed primary timer until
\* checkOnlineState runs again.
EveryBranchRearms ==
    lastPoll \in PollBranches =>
        checkOnlineStateTimeout.st = "armed" /\ ArmedPrimary >= 1

\* A poll cycle that began online has ended with its configuration fetch
\* rejected, while another poll cycle is in flight.
CreateRejectedBesidePoll ==
    lastPoll = "createRejected" /\ prevOnline /\ PollsInFlight >= 1

\* C13: once a poll cycle has completed, whatever its branch, the event
\* published last is the 'fbs.online' or 'fbs.offline' of the state the
\* poll cycle left.
PublishedAfterEveryPoll ==
    lastPoll \in PollBranches => signal = EventName(onlineState)

\* C14: a poll cycle whose configuration fetch failed leaves online false
\* and the counter 0, with the primary timer armed with offlineTimeout.
ConfigFetchFailureForcesOffline ==
    lastPoll = "createRejected" =>
        /\ ~onlineState.online
        /\ onlineState.successfulOnlineChecks = 0
        /\ checkOnlineStateTimeout.st = "armed"
        /\ checkOnlineStateTimeout.delay = onlineState.offlineTimeout

\* C15: a poll cycle ends in the 'not configured' branch only when the
\* configuration it fetched had no endpoint (healthyRun is above 0 only
\* after a poll cycle whose fetched configuration had one).
NotConfiguredOnlyWithoutEndpoint ==
    lastPoll = "notConfigured" => healthyRun = 0

\* C16: after the configuration fetch of plugin start has failed, a retry is
\* under way: a timer with checkOnlineState as its callback is armed or a
\* poll cycle is in flight.
BootFailureRetries ==
    boot = "registered without fbs" =>
        ArmedPrimary + ArmedWatchdog + PollsInFlight >= 1

\* C17: no request is given more than one emission on its busEvent /
\* errorEvent pair.
AtMostOneEmission ==
    \A r \in Requests : Len(delivered[r]) <= 1

\* C18: no two requests have one-shot handlers subscribed to the same event
\* name, and a request is given a storage error only when the append of its
\* own record failed.
NoCrossTalk ==
    /\ \A h, g \in subs : h.name = g.name => h.r = g.r
    /\ \A r \in Requests :
           (\E i \in DOMAIN delivered[r] : delivered[r][i].what = "storage error")
               => AppendStatus(r) = "failed"

\* What request r is owed on its event pair, from its own call alone.
OwnAnswer(r) ==
    IF req[r].pc # "done" THEN <<>>
    ELSE IF req[r].reply = "ok" THEN <<[ev |-> "busEvent", what |-> "result"]>>
    ELSE IF ~FellBack(r) THEN <<[ev |-> "errorEvent", what |-> req[r].reply]>>
    ELSE CASE AppendStatus(r) = "stored" ->
                  <<[ev |-> "busEvent", what |-> "material"]>>
           [] AppendStatus(r) = "failed" ->
                  <<[ev |-> "errorEvent", what |-> "storage error"]>>
           [] OTHER -> <<>>

\* Request r is a check-in and no other check-in is for its item.
CheckInOfItsOwnItem(r) ==
    /\ req[r].op = "checkin"
    /\ \A q \in Requests \ {r} :
           req[q].op = "checkin" => req[q].itemIdentifier # req[r].itemIdentifier

\* C19: a check-in whose item identifier differs from that of every other
\* check-in is given, on its own event pair, exactly the outcome of its own
\* call, however the configuration fetches, Transport answers and storage
\* answers of the requests interleave.
ScenarioE ==
    \A r \in Requests : CheckInOfItsOwnItem(r) => delivered[r] = OwnAnswer(r)

\* Two check-ins of different items have both fallen back; the append of
\* one was stored, that of the other failed, and both were answered.
TwoCheckInsAnswered ==
    \E r, q \in Requests :
        /\ req[r].op = "checkin" /\ req[q].op = "checkin"
        /\ req[r].itemIdentifier # req[q].itemIdentifier
        /\ FellBack(r) /\ FellBack(q)
        /\ AppendStatus(r) = "stored" /\ AppendStatus(q) = "failed"
        /\ delivered[r] # <<>> /\ delivered[q] # <<>>

\* C20: once the storage plugin has answered every append, no one-shot
\* handler of a fallback remains subscribed.
NoHandlerLeak ==
    (\A i \in DOMAIN storage : storage[i].status # "pending") => subs = {}

\* Request r, if it was sent, has been given an emission on its event pair;
\* if its Facade call failed, its errorEvent or the provisional success.
Answered(r) ==
    /\ req[r].pc # "new" => delivered[r] # <<>>
    /\ (req[r].pc = "done" /\ req[r].reply \in Failures) =>
           \E i \in DOMAIN delivered[r] :
               \/ delivered[r][i].ev = "errorEvent"
               \/ delivered[r][i].what = "material"

\* C21: when the configuration provider, the Transport and the storage
\* plugin answer, every request sent is eventually given an emission on its
\* busEvent or its errorEvent, a failed Facade call its errorEvent or the
\* provisional success of the fallback: from some time on no request sent
\* is left without (emissions are never taken back).
NeverSwallowed == <>[](\A r \in Requests : Answered(r))

\* A handler without a fallback was given the failure of its call, and a
\* fallback whose append failed was given the storage error.
FailuresDelivered ==
    \E r, q \in Requests :
        /\ req[r].op \in SimpleOps /\ req[r].reply = "FBS is offline"
        /\ delivered[r] = <<[ev |-> "errorEvent", what |-> "FBS is offline"]>>
        /\ FellBack(q) /\ AppendStatus(q) = "failed"
        /\ delivered[q] = <<[ev |-> "errorEvent", what |-> "storage error"]>>

\* The emissions made with name n for the request followed.
Emissions(n) == SelectSeq(emitted, LAMBDA e : e.name = n)

\* C22: once the Transport has answered the Facade call of the request,
\* exactly one 'fbs.action.result' has been emitted for it.
OneActionResultPerCall ==
    answer # <<>> => Len(Emissions("fbs.action.result")) = 1

\* The patron of a login answer is valid; every privilege of it is denied.
ValidPatron(p) == p.validPatron = "Y" /\ p.validPatronPassword = "Y"
AllDenied(p) ==
    /\ p.patronStatus.chargePrivDenied /\ p.patronStatus.renewalPrivDenied
    /\ p.patronStatus.recallPrivDenied /\ p.patronStatus.holdPrivDenied

\* C23: login resolves exactly when the Transport answered without error
\* with a valid patron and password and a privilege that is not denied; it
\* is rejected with the invalid-login error for a patron or password that is
\* not valid, with the blocked error for a valid patron with all four
\* privileges denied, and with the Transport's error when there is one.
LoginContract ==
    (inbound.message = "fbs.login" /\ answer # <<>>) =>
        IF answer[1].err # <<>>
        THEN outcome = [settled |-> "rejected", value |-> answer[1].err]
        ELSE LET p == answer[1].res[1]
             IN /\ outcome.settled = "resolved" <=> (ValidPatron(p) /\ ~AllDenied(p))
                /\ ~ValidPatron(p) =>
                       outcome = [settled |-> "rejected",
                                  value |-> <<"login.invalid_login_error">>]
                /\ (ValidPatron(p) /\ AllDenied(p)) =>
                       outcome = [settled |-> "rejected",
                                  value |-> <<"login.invalid_login_blocked">>]

\* A valid patron with all four privileges denied was refused, and the
\* caller was told on its errorEvent.
BlockedLoginRefused ==
    /\ inbound.message = "fbs.login" /\ stage = "done" /\ answer # <<>>
    /\ answer[1].err = <<>>
    /\ ValidPatron(answer[1].res[1]) /\ AllDenied(answer[1].res[1])
    /\ Emissions("errorEvent") =
           <<[name |-> "errorEvent", payload |-> [err |-> "login.invalid_login_blocked"]]>>

\* Property f of the data object is the request's own when the request had
\* it, and otherwise v.
DefaultIs(f, v) ==
    Get(data, f) = IF f \in DOMAIN inbound.data THEN <<inbound.data[f]>> ELSE <<v>>

\* C24: from the handler's first step on, noBlockDueDate is the request's or
\* the time of arrival + 31 days, transactionDate (checkout) and
\* checkedInDate (check-in) are the request's or the time of arrival, queued
\* is the request's or false, and the noBlock passed to the Facade is the
\* request's or false.
DefaultsApplied ==
    /\ inbound.message = "fbs.checkout" =>
           /\ DefaultIs("noBlockDueDate", inbound.at + NoBlockPeriod)
           /\ DefaultIs("transactionDate", inbound.at)
           /\ DefaultIs("queued", FALSE)
    /\ inbound.message = "fbs.checkin" =>
           /\ DefaultIs("checkedInDate", inbound.at)
           /\ DefaultIs("queued", FALSE)
    /\ (inbound.message \in {"fbs.checkout", "fbs.checkin"} /\ args # <<>>) =>
           args[1].noBlock = IF "noBlock" \in DOMAIN inbound.data
                             THEN <<inbound.data.noBlock>> ELSE <<FALSE>>

\* A checkout that came with a transactionDate and without noBlockDueDate,
\* noBlock and queued was answered by the Facade, after the clock moved on.
CheckoutWithSomeDefaults ==
    /\ inbound.message = "fbs.checkout" /\ stage = "done" /\ args # <<>>
    /\ DOMAIN inbound.data \cap {"noBlockDueDate", "transactionDate", "noBlock", "queued"}
           = {"transactionDate"}
    /\ now > inbound.at

\* The storage plugin has confirmed the append of the fallback.
AppendConfirmed ==
    /\ stage = "done" /\ once # {}
    /\ \A h \in once : h.emits = "errorEvent"

\* C25: after a fallback whose append was confirmed, the caller has been
\* given on its busEvent one result with the request's itemIdentifier,
\* offline true, ok '1' and, for a checkout, dueDate the request's
\* noBlockDueDate or the time of arrival + 31 days, for a check-in no
\* dueDate; and one job was put in the queue.
ScenarioC ==
    AppendConfirmed =>
        /\ Len(Emissions("busEvent")) = 1
        /\ Emissions("errorEvent") = <<>>
        /\ LET result == Emissions("busEvent")[1].payload.result
           IN /\ result.itemIdentifier = <<inbound.data.itemIdentifier>>
              /\ result.offline = TRUE
              /\ result.ok = "1"
              /\ IF inbound.message = "fbs.checkout"
                 THEN result.dueDate =
                          IF "noBlockDueDate" \in DOMAIN inbound.data
                          THEN <<inbound.data.noBlockDueDate>>
                          ELSE <<inbound.at + NoBlockPeriod>>
                 ELSE "dueDate" \notin DOMAIN result
        /\ Len(Emissions(OfflineAdd(inbound.message))) = 1

\* A checkout sent without noBlockDueDate was given the provisional result.
ProvisionalCheckoutWithDefaultDueDate ==
    /\ AppendConfirmed /\ inbound.message = "fbs.checkout"
    /\ "noBlockDueDate" \notin DOMAIN inbound.data

\* The request followed is a replay of a checkout: queued and noBlock
\* true, with its own transactionDate and noBlockDueDate.
Replay ==
    /\ inbound.message = "fbs.checkout"
    /\ {"queued", "noBlock", "transactionDate", "noBlockDueDate"}
           \subseteq DOMAIN inbound.data
    /\ inbound.data.queued /\ inbound.data.noBlock

\* C26: the Facade's checkout is called for a replay with the request's own
\* values and noBlock true: the arguments of the same request sent with
\* queued false.
ReplayRoundTrip ==
    (Replay /\ args # <<>>) =>
        /\ args[1] = [username |-> <<inbound.data.username>>,
                      password |-> <<inbound.data.password>>,
                      itemIdentifier |-> <<inbound.data.itemIdentifier>>,
                      noBlockDueDate |-> <<inbound.data.noBlockDueDate>>,
                      noBlock |-> <<TRUE>>,
                      transactionDate |-> <<inbound.data.transactionDate>>]
        /\ args[1] = FacadeArguments("fbs.checkout",
                         CheckoutDefaults(With(inbound.data, "queued", FALSE), inbound.at))

\* A replay has failed with the back end offline and was told so.
ReplayFailedOffline ==
    /\ Replay /\ stage = "done"
    /\ outcome = [settled |-> "rejected", value |-> <<"FBS is offline">>]
    /\ now > inbound.at

\* C27: the record of a 'storage.append' carries the action, the item
\* identifier and as date the request's transactionDate (checkout) or
\* checkedInDate (check-in), after the defaults; the checkout record also
\* carries username and password.
RecordCarriesDate ==
    \A i \in DOMAIN Emissions("storage.append") :
        LET obj == Emissions("storage.append")[i].payload.obj
        IN /\ obj.itemIdentifier = <<inbound.data.itemIdentifier>>
           /\ IF inbound.message = "fbs.checkout"
              THEN /\ obj.action = "checkout"
                   /\ obj.date = Get(data, "transactionDate")
                   /\ obj.username = <<inbound.data.username>>
                   /\ obj.password = <<inbound.data.password>>
              ELSE /\ obj.action = "checkin"
                   /\ obj.date = Get(data, "checkedInDate")
           /\ obj.date # <<>>

\* C28: the name of every 'storage.append' and the file of the job emitted
\* with it are the same: the request's username for a checkout, its
\* transaction for a check-in; and the append has lockFile true.
FileKeyAgrees ==
    \A i \in DOMAIN Emissions("storage.append") :
        LET append == Emissions("storage.append")[i].payload
            job == Emissions(OfflineAdd(inbound.message))[i].payload
        IN /\ append.name = <<job.file>>
           /\ append.name = IF inbound.message = "fbs.checkout"
                            THEN <<inbound.data.username>>
                            ELSE <<inbound.data.transaction>>
           /\ append.lockFile = TRUE

\* A check-in has fallen back and waits for the storage plugin.
CheckInAppendSent ==
    /\ inbound.message = "fbs.checkin" /\ stage = "append"
    /\ Len(Emissions("storage.append")) = 1
    /\ Len(Emissions("offline.add.checkin")) = 1

\* C29: after a poll cycle the primary timer is armed with onlineTimeout
\* exactly when the poll cycle left online true, and with offlineTimeout
\* otherwise; a poll cycle answered online below the threshold leaves
\* online false and 'fbs.offline' published.
ScheduledByOutcome ==
    /\ lastPoll \in PollBranches =>
           checkOnlineStateTimeout.delay =
               IF onlineState.online THEN onlineState.onlineTimeout
               ELSE onlineState.offlineTimeout
    /\ lastPoll = "belowThreshold" => ~onlineState.online /\ signal = "fbs.offline"

\* C30: the callback of a poll cycle's FBS.create leaves in onlineState the
\* threshold, onlineTimeout and offlineTimeout of the configuration it was
\* given, and arms the next poll with one of these timeouts.
FreshConfigurationApplied ==
    [][\A cfg \in Configs :
           (polls.create > 0 /\ PollCreated(cfg, EndpointTest)) =>
               /\ onlineState'.threshold = cfg.onlineState.threshold
               /\ onlineState'.onlineTimeout = cfg.onlineState.onlineTimeout
               /\ onlineState'.offlineTimeout = cfg.onlineState.offlineTimeout
               /\ checkOnlineStateTimeout'.st = "armed" =>
                      checkOnlineStateTimeout'.delay \in
                          {cfg.onlineState.onlineTimeout, cfg.onlineState.offlineTimeout}]_vars

\* C31: the failed flag of every 'fbs.action.result' is true exactly when the
\* promise of the Facade call it reports was rejected; a login refused for
\* invalid credentials or for a blocked patron is reported as failed.
FailedExactlyWhenRejected ==
    answer # <<>> =>
        \A i \in DOMAIN Emissions("fbs.action.result") :
            Emissions("fbs.action.result")[i].payload.failed
                = (outcome.settled = "rejected")

\* A step in which libraryStatus of a poll cycle resolved and was taken as
\* online (the test of line 367 held).
AnsweredOnline ==
    /\ polls'.status < polls.status
    /\ lastPoll' \in {"online", "belowThreshold"}

StartedOnlyWhenEnabled ==
    /\ [](~MonitorStarted =>
             /\ ArmedPrimary + ArmedWatchdog + PollsInFlight = 0
             /\ signal = "none" /\ lastPoll = "none"
             /\ onlineState = InitialOnlineState)
    /\ [][/\ \A ok \in BOOLEAN, cfg \in Configs :
                (boot = "create" /\ Bootstrap(ok, cfg)) =>
                    /\ boot' # "create"
                    /\ MonitorStarted' <=> (ok /\ cfg.enableOnlineChecks)
          /\ boot # "create" =>
                 /\ boot' = boot
                 /\ MonitorStarted' <=> MonitorStarted]_vars

\* The plugin has registered with a configuration without enableOnlineChecks
\* and the checker was not started.
RegisteredWithoutChecker == boot = "registered" /\ ~MonitorStarted

\* C32: a step of a request handler, whatever the request and its outcome,
\* the offline fallback included, leaves onlineState (online,
\* successfulOnlineChecks, threshold and the timeouts) and both timers of
\* the checker as they were.
HandlersLeaveOnlineState ==
    [][requestVars' # requestVars =>
           UNCHANGED <<onlineState, checkOnlineStateTimeout,
                       ensureCheckOnlineStateTimeout, orphans, ensureOrphans>>]_vars

\* Beside a checker that is online with both timers armed, a request fell
\* back and was given the provisional success, and a handler without a
\* fallback was given the failure of its call.
FallbackBesideArmedChecker ==
    /\ onlineState.online
    /\ checkOnlineStateTimeout.st = "armed"
    /\ ensureCheckOnlineStateTimeout.st = "armed"
    /\ \E r, q \in Requests :
           /\ FellBack(r) /\ AppendStatus(r) = "stored" /\ Provisional(r)
           /\ req[q].op \in SimpleOps /\ req[q].pc = "done"
           /\ req[q].reply = "FBS is offline"

\* No other checkout / check-in has the event names of the fallback of r.
OwnEventNames(r) ==
    \A q \in Requests \ {r} :
        req[q].op \in Ops => StoredEvent(req[q]) # StoredEvent(req[r])

\* The answers of the storage plugin, so far, on name.
StorageAnswers(name) ==
    {storage[i].status : i \in {j \in DOMAIN storage : storage[j].busEvent = name}}

\* C35: what a checkout / check-in is given and what it leaves behind is
\* fixed by the request, the answer of the Transport and the answers of the
\* storage plugin, in every state of the online checker: one record and one
\* job exactly when the call failed offline and the request was not a
\* replay; on its event pair the outcome of its own call and append, or,
\* where another request shares the event names of its fallback, emissions
\* that the call and the storage answers on these names account for.
OutcomeIgnoresOnlineState ==
    \A r \in Requests :
        req[r].op \in Ops =>
            /\ Len(AppendsOf(r)) = (IF FellBack(r) THEN 1 ELSE 0)
            /\ Len(JobsOf(r)) = (IF FellBack(r) THEN 1 ELSE 0)
            /\ OwnEventNames(r) => delivered[r] = OwnAnswer(r)
            /\ ~FellBack(r) => delivered[r] = OwnAnswer(r)
            /\ FellBack(r) =>
                   \A i \in DOMAIN delivered[r] :
                       \/ /\ delivered[r][i] = [ev |-> "busEvent", what |-> "material"]
                          /\ "stored" \in StorageAnswers(StoredEvent(req[r]))
                       \/ /\ delivered[r][i] =
                                 [ev |-> "errorEvent", what |-> "storage error"]
                          /\ "failed" \in StorageAnswers(StoredEvent(req[r]))

\* A checkout that failed offline was given the provisional success, and
\* left one record and one job, while the checker's state said online and
\* nothing but the outcome of its call had been published.
FallbackWhileCheckerOnline ==
    /\ onlineState.online /\ signal = "none"
    /\ \E r \in Requests :
           /\ req[r].op = "checkout" /\ FellBack(r) /\ OwnEventNames(r)
           /\ delivered[r] = <<[ev |-> "busEvent", what |-> "material"]>>
           /\ Len(AppendsOf(r)) = 1 /\ Len(JobsOf(r)) = 1

====
